---- MODULE Spec2Model ----
(***************************************************************************)
(* Model of the tiktakgo server (src/main.go): the bubbletea model of one  *)
(* ssh session (board, currentPlayer, view, players), its Update handler   *)
(* and updateCell, and the process-wide gameState (registry of sessions,   *)
(* player slots, broadcast).                                               *)
(*                                                                         *)
(* Spec      one connected program: every key event is one call of         *)
(*           model.Update on that program's model.                         *)
(* SpecName  the same program with the naming view: every key of Update,   *)
(*           the key 0 included, and the keys typed into the text input.   *)
(* SpecSess  up to three ssh sessions: teaHandler statement by statement,  *)
(*           then key events handled by each session's own program; the    *)
(*           programs' models are copies of state.m and share the backing  *)
(*           array of its board.                                           *)
(* SpecBcast teaHandler together with BroadcastMessage: the goroutine that *)
(*           RegisterSession starts for every channel, and one further     *)
(*           caller of BroadcastMessage.                                   *)
(* SpecRace  two connected sessions whose programs run updateCell at the   *)
(*           same time, one statement at a time, on the shared array.      *)
(***************************************************************************)
EXTENDS Integers, FiniteSets, Sequences, TLC

VARIABLES
    m,            \* Spec: the model value held by the program of the session
    cmd,          \* Spec: the tea.Cmd returned by the last Update
    stateM,       \* state.m; its field board names the backing array
    statePlayers, \* state.players: the session bound to each slot, or Nil
    sessions,     \* state.sessions: the registered ids (the channel of id s is s)
    mu,           \* state.mu: the process holding the mutex, or Nil
    heap,         \* contents of the board arrays, by array
    pm,           \* the model value held by each session's program
    hpc,          \* where each session's teaHandler / program stands
    closed,       \* sessions on which s.Close() was called
    nkeys,        \* key events delivered so far in SpecSess and SpecName
    bpc,          \* where each goroutine of RegisterSession / the caller stands
    btodo,        \* BroadcastMessage: the channels the range loop has yet to visit
    bcur,         \* BroadcastMessage: the channel the loop is sending to
    rpc,          \* SpecRace: the line of updateCell each program stands at
    rcell,        \* SpecRace: the arguments x, y of each running updateCell
    rvic,         \* SpecRace: the local victory of each running updateCell
    snap,         \* SpecRace: the board and models when the two calls began
    nrounds       \* SpecRace: pairs of concurrent calls begun so far

gameVars == <<m, cmd>>
bcastVars == <<bpc, btodo, bcur>>
raceVars == <<rpc, rcell, rvic, snap, nrounds>>
sessVars == <<stateM, statePlayers, sessions, mu, heap, pm, hpc, closed, nkeys,
              bpc, btodo, bcur, rpc, rcell, rvic, snap, nrounds>>
vars == <<m, cmd, stateM, statePlayers, sessions, mu, heap, pm, hpc, closed, nkeys,
          bpc, btodo, bcur, rpc, rcell, rvic, snap, nrounds>>

(***************************************************************************)
(* Bounds.                                                                 *)
(***************************************************************************)
\* a key event is delivered only while it leaves both scores <= MaxScore
MaxScore == 1
\* SpecSess delivers at most MaxKeys key events in all
MaxKeys == 2
\* SpecRace begins at most MaxRounds pairs of concurrent moves
MaxRounds == 2
\* SpecName delivers at most MaxNameKeys key events
MaxNameKeys == 4
\* the text input holds at most MaxText characters (CharLimit in the code)
MaxText == 1

(***************************************************************************)
(* Data: cells, boards, keys.                                              *)
(***************************************************************************)
Idx == 0 .. 2
Cells == Idx \X Idx
Slots == 0 .. 1

\* values of a cell: the keys of the map pieces
Empty == 0
MarkA == 1
MarkB == -1
TagRow == 2
TagCol == 3
TagDiag == 4
TagAnti == 5
Marks == {MarkA, MarkB}
Tags == {TagRow, TagCol, TagDiag, TagAnti}

\* the board literal of newBubbleteaModel and of the esc branch of Update
EmptyBoard == [c \in Cells |-> Empty]

\* a nil pointer or channel
Nil == 0
\* the ssh sessions, named in the order of their RegisterSession calls
Sessions == 1 .. 3
\* a caller of BroadcastMessage that is not a goroutine of RegisterSession
Caller == 4
\* the processes that run BroadcastMessage: the goroutine of channel s is s
Procs == Sessions \cup {Caller}
\* s.User() of each session
User(s) == <<"ann", "bob", "cat">>[s]

\* newBubbleteaModel, with players[0].name as teaHandler sets it for the
\* first session before the model is copied into its program
newBubbleteaModel ==
    [ board         |-> EmptyBoard,
      currentPlayer |-> 1,
      view          |-> 1,
      text          |-> "",
      name          |-> [i \in Slots |-> ""],
      score         |-> [i \in Slots |-> 0],
      ch            |-> [i \in Slots |-> Nil] ]

\* the nine move keys of view 1 and the cell each one addresses
MoveKeys == {"q", "w", "e", "a", "s", "d", "z", "x", "c"}
KeyCell(k) ==
    CASE k = "q" -> <<0, 0>> [] k = "w" -> <<0, 1>> [] k = "e" -> <<0, 2>>
      [] k = "a" -> <<1, 0>> [] k = "s" -> <<1, 1>> [] k = "d" -> <<1, 2>>
      [] k = "z" -> <<2, 0>> [] k = "x" -> <<2, 1>> [] k = "c" -> <<2, 2>>
ViewKeys == {"0", "1", "2"}
Keys == MoveKeys \cup ViewKeys \cup {"esc", "enter", "ctrl+c"}

(***************************************************************************)
(* updateCell, statement by statement.                                     *)
(***************************************************************************)
\* lines 246-252: an empty cell takes the mark of currentPlayer and the turn
\* passes; a marked cell changes sign; any other cell is left alone
MarkCell_NoFlip(mm, x, y) ==
    LET cell == mm.board[<<x, y>>] IN
    IF cell = 0
    THEN [mm EXCEPT !.board[<<x, y>>] = mm.currentPlayer]
    ELSE IF cell = 1 \/ cell = -1
         THEN [mm EXCEPT !.board[<<x, y>>] = cell * (-1)]
         ELSE mm

MarkCell_Reject(mm, x, y) ==
    LET cell == mm.board[<<x, y>>] IN
    IF cell = 0
    THEN [mm EXCEPT !.board[<<x, y>>] = mm.currentPlayer,
                    !.currentPlayer = mm.currentPlayer * (-1)]
    ELSE mm

MarkCell(mm, x, y) ==
    LET cell == mm.board[<<x, y>>] IN
    IF cell = 0
    THEN [mm EXCEPT !.board[<<x, y>>] = mm.currentPlayer,
                    !.currentPlayer = mm.currentPlayer * (-1)]
    ELSE IF cell = 1 \/ cell = -1
         THEN [mm EXCEPT !.board[<<x, y>>] = cell * (-1)]
         ELSE mm

\* lines 255-260: r is the pair of the model and the local victory
CheckRow_NoTag(r, x) ==
    LET b == r.m.board IN
    IF b[<<x, 0>>] = b[<<x, 1>>] /\ b[<<x, 1>>] = b[<<x, 2>>]
    THEN [ m |-> r.m, victory |-> TRUE ]
    ELSE r

CheckRow(r, x) ==
    LET b == r.m.board IN
    IF b[<<x, 0>>] = b[<<x, 1>>] /\ b[<<x, 1>>] = b[<<x, 2>>]
    THEN [ m |-> [r.m EXCEPT !.board =
                    [c \in Cells |-> IF c[1] = x THEN 2 ELSE b[c]]],
           victory |-> TRUE ]
    ELSE r

\* lines 262-267
CheckCol(r, y) ==
    LET b == r.m.board IN
    IF b[<<0, y>>] = b[<<1, y>>] /\ b[<<1, y>>] = b[<<2, y>>]
    THEN [ m |-> [r.m EXCEPT !.board =
                    [c \in Cells |-> IF c[2] = y THEN 3 ELSE b[c]]],
           victory |-> TRUE ]
    ELSE r

DiagCells == {<<0, 0>>, <<1, 1>>, <<2, 2>>}
AntiCells == {<<0, 2>>, <<1, 1>>, <<2, 0>>}

\* lines 269-276
CheckDiag(r) ==
    LET b == r.m.board IN
    IF /\ b[<<0, 0>>] = b[<<1, 1>>] /\ b[<<1, 1>>] = b[<<2, 2>>]
       /\ (b[<<1, 1>>] = 1 \/ b[<<1, 1>>] = -1)
    THEN [ m |-> [r.m EXCEPT !.board =
                    [c \in Cells |-> IF c \in DiagCells THEN 4 ELSE b[c]]],
           victory |-> TRUE ]
    ELSE r

\* lines 278-285
CheckAnti(r) ==
    LET b == r.m.board IN
    IF /\ b[<<0, 2>>] = b[<<1, 1>>] /\ b[<<1, 1>>] = b[<<2, 0>>]
       /\ (b[<<1, 1>>] = 1 \/ b[<<1, 1>>] = -1)
    THEN [ m |-> [r.m EXCEPT !.board =
                    [c \in Cells |-> IF c \in AntiCells THEN 5 ELSE b[c]]],
           victory |-> TRUE ]
    ELSE r

\* lines 286-292: the score goes to the player who does not hold the turn now
AwardScore_ToTurn(r) ==
    IF r.victory
    THEN IF r.m.currentPlayer # 1
         THEN [r.m EXCEPT !.score[1] = @ + 1]
         ELSE [r.m EXCEPT !.score[0] = @ + 1]
    ELSE r.m

AwardScore(r) ==
    IF r.victory
    THEN IF r.m.currentPlayer # 1
         THEN [r.m EXCEPT !.score[0] = @ + 1]
         ELSE [r.m EXCEPT !.score[1] = @ + 1]
    ELSE r.m

updateCell(mm, x, y) ==
    AwardScore(
        CheckAnti(CheckDiag(CheckCol(CheckRow(
            [m |-> MarkCell(mm, x, y), victory |-> FALSE], x), y))))

(***************************************************************************)
(* model.Update for a tea.KeyMsg: the new model, the command, and whether  *)
(* m.board was re-allocated (the esc branch builds a new slice).           *)
(***************************************************************************)
\* the keys that are one printable character
Printable == MoveKeys \cup ViewKeys

\* textinput.Model.Update on a key: a printable character is appended while
\* the value is shorter than the limit, any other key changes nothing
TextInputUpdate(t, k) ==
    IF k \in Printable /\ Len(t) < MaxText THEN t \o k ELSE t

\* lines 365-369
ResetBoard_NewModel(mm) ==
    [newBubbleteaModel EXCEPT !.name = mm.name, !.text = mm.text]

ResetBoard(mm) == [mm EXCEPT !.board = EmptyBoard]

\* lines 317-335
UpdateView0(mm, k) ==
    IF k = "enter"
    THEN IF mm.currentPlayer = 1
         THEN [ m |-> [mm EXCEPT !.name[0] = mm.text,
                                 !.text = "",
                                 !.currentPlayer = mm.currentPlayer * (-1)],
                cmd |-> "nil", fresh |-> FALSE ]
         ELSE IF mm.currentPlayer = -1
              THEN [ m |-> [mm EXCEPT !.name[1] = mm.text,
                                      !.currentPlayer = mm.currentPlayer * (-1),
                                      !.view = 1],
                     cmd |-> "nil", fresh |-> FALSE ]
              ELSE [ m |-> mm, cmd |-> "nil", fresh |-> FALSE ]
    ELSE [ m |-> [mm EXCEPT !.text = TextInputUpdate(mm.text, k)],
           cmd |-> "nil", fresh |-> FALSE ]

\* lines 336-373
UpdateView1(mm, k) ==
    IF k = "ctrl+c" THEN [ m |-> mm, cmd |-> "quit", fresh |-> FALSE ]
    ELSE IF k \in MoveKeys
    THEN [ m |-> updateCell(mm, KeyCell(k)[1], KeyCell(k)[2]),
           cmd |-> "nil", fresh |-> FALSE ]
    ELSE IF k = "0" THEN [ m |-> [mm EXCEPT !.view = 0], cmd |-> "nil", fresh |-> FALSE ]
    ELSE IF k = "1" THEN [ m |-> [mm EXCEPT !.view = 1], cmd |-> "nil", fresh |-> FALSE ]
    ELSE IF k = "2" THEN [ m |-> [mm EXCEPT !.view = 2], cmd |-> "nil", fresh |-> FALSE ]
    ELSE IF k = "esc" THEN [ m |-> ResetBoard(mm), cmd |-> "nil", fresh |-> TRUE ]
    ELSE [ m |-> mm, cmd |-> "nil", fresh |-> FALSE ]

\* lines 307-377, case tea.KeyMsg
Update_View2Plays(mm, k) ==
    IF mm.view = 0 THEN UpdateView0(mm, k)
    ELSE UpdateView1(mm, k)

Update(mm, k) ==
    IF mm.view = 0 THEN UpdateView0(mm, k)
    ELSE IF mm.view = 1 THEN UpdateView1(mm, k)
    ELSE [ m |-> mm, cmd |-> "nil", fresh |-> FALSE ]

(***************************************************************************)
(* Spec: the program of one connected session.                             *)
(***************************************************************************)
\* keys the terminal delivers in Spec: the naming view is not entered
GameKeys == Keys \ {"0"}

WithinScore(mm) == \A i \in Slots : mm.score[i] <= MaxScore

\* the board arrays: 0 is the one newBubbleteaModel allocates for state.m,
\* s is the one the esc branch of session s's Update allocates
Arrays == {0} \cup Sessions

\* the two sessions that hold the player slots in SpecRace
RaceSessions == 1 .. 2
NoSnap == [board |-> EmptyBoard, pm |-> <<>>, cell |-> <<>>]

\* the state before any session connects: var state = gameState{...}
InitState ==
    /\ stateM = [newBubbleteaModel EXCEPT !.board = 0]
    /\ statePlayers = [i \in Slots |-> Nil]
    /\ sessions = {}
    /\ mu = Nil
    /\ heap = [a \in Arrays |-> EmptyBoard]
    /\ pm = [s \in Sessions |-> [newBubbleteaModel EXCEPT !.board = 0]]
    /\ hpc = [s \in Sessions |-> "idle"]
    /\ closed = {}
    /\ nkeys = 0
    /\ bpc = [p \in Procs |-> IF p = Caller THEN "idle" ELSE "none"]
    /\ btodo = [p \in Procs |-> {}]
    /\ bcur = [p \in Procs |-> Nil]
    /\ rpc = [s \in RaceSessions |-> "idle"]
    /\ rcell = [s \in RaceSessions |-> <<0, 0>>]
    /\ rvic = [s \in RaceSessions |-> FALSE]
    /\ snap = NoSnap
    /\ nrounds = 0

\* teaHandler for the first session: state.m, with players[0].ch and
\* players[0].name set for it, is returned by value as the program's model
Init ==
    /\ m = [newBubbleteaModel EXCEPT !.name[0] = User(1), !.ch[0] = 1]
    /\ cmd = "nil"
    /\ InitState

\* one tea.KeyMsg handled by the program: m, cmd := m.Update(msg); the
\* program ends once Update has returned tea.Quit
Key(k) ==
    LET r == Update(m, k) IN
    /\ cmd # "quit"
    /\ WithinScore(r.m)
    /\ m' = r.m
    /\ cmd' = r.cmd
    /\ UNCHANGED sessVars

Next == \E k \in GameKeys : Key(k)

Spec == Init /\ [][Next]_vars

(***************************************************************************)
(* SpecName: the program of one connected session, the naming view too.    *)
(***************************************************************************)
\* one tea.KeyMsg handled by the program, any key of Update
KeyN(k) ==
    LET r == Update(m, k) IN
    /\ cmd # "quit"
    /\ nkeys < MaxNameKeys
    /\ m' = r.m
    /\ cmd' = r.cmd
    /\ nkeys' = nkeys + 1
    /\ UNCHANGED <<stateM, statePlayers, sessions, mu, heap, pm, hpc, closed,
                   bpc, btodo, bcur, rpc, rcell, rvic, snap, nrounds>>

NextName == \E k \in Keys : KeyN(k)

SpecName == Init /\ [][NextName]_vars

(***************************************************************************)
(* SpecSess: teaHandler and the programs of up to three sessions.          *)
(***************************************************************************)
\* lines 130-146, called at line 205 with a new channel; the mutex is held
\* for the whole body
RegisterSession(s) ==
    /\ sessions' = sessions \cup {s}
    /\ stateM' = IF stateM.ch[0] = Nil
                 THEN [stateM EXCEPT !.ch[0] = s]
                 ELSE [stateM EXCEPT !.ch[1] = s]

\* lines 203-205; lines 140-145 start the goroutine that receives on the channel
HRegister(s) ==
    /\ hpc[s] = "idle"
    /\ \A t \in Sessions : t < s => hpc[t] # "idle"
    /\ mu = Nil
    /\ RegisterSession(s)
    /\ bpc' = [bpc EXCEPT ![s] = "recv"]
    /\ hpc' = [hpc EXCEPT ![s] = "l209"]
    /\ UNCHANGED <<statePlayers, mu, heap, pm, closed, nkeys, btodo, bcur>>
    /\ UNCHANGED <<gameVars, raceVars>>

\* line 209: if state.players[0] == nil
HCheck0(s) ==
    /\ hpc[s] = "l209"
    /\ hpc' = [hpc EXCEPT ![s] = IF statePlayers[0] = Nil THEN "l210" ELSE "l224"]
    /\ UNCHANGED <<stateM, statePlayers, sessions, mu, heap, pm, closed, nkeys, bpc, btodo, bcur>>
    /\ UNCHANGED <<gameVars, raceVars>>

\* line 224: else if state.players[1] == nil
HCheck1(s) ==
    /\ hpc[s] = "l224"
    /\ hpc' = [hpc EXCEPT ![s] = IF statePlayers[1] = Nil THEN "l225" ELSE "l240"]
    /\ UNCHANGED <<stateM, statePlayers, sessions, mu, heap, pm, closed, nkeys, bpc, btodo, bcur>>
    /\ UNCHANGED <<gameVars, raceVars>>

\* lines 210-223 (slot 0) and 225-238 (slot 1)
HBind(s, i) ==
    /\ hpc[s] = (IF i = 0 THEN "l210" ELSE "l225")
    /\ statePlayers' = [statePlayers EXCEPT ![i] = s]
    /\ stateM' = [stateM EXCEPT !.name[i] = User(s)]
    /\ hpc' = [hpc EXCEPT ![s] = "l242"]
    /\ UNCHANGED <<sessions, mu, heap, pm, closed, nkeys, bpc, btodo, bcur>>
    /\ UNCHANGED <<gameVars, raceVars>>

\* line 240: s.Close()
HClose(s) ==
    /\ hpc[s] = "l240"
    /\ closed' = closed \cup {s}
    /\ hpc' = [hpc EXCEPT ![s] = "l242"]
    /\ UNCHANGED <<stateM, statePlayers, sessions, mu, heap, pm, nkeys, bpc, btodo, bcur>>
    /\ UNCHANGED <<gameVars, raceVars>>

\* line 242: return state.m, a copy by value that keeps the board's array
HReturn(s) ==
    /\ hpc[s] = "l242"
    /\ pm' = [pm EXCEPT ![s] = stateM]
    /\ hpc' = [hpc EXCEPT ![s] = "l206"]
    /\ UNCHANGED <<stateM, statePlayers, sessions, mu, heap, closed, nkeys, bpc, btodo, bcur>>
    /\ UNCHANGED <<gameVars, raceVars>>

\* lines 148-153, deferred at line 206 and run as teaHandler returns; the
\* program of a session that was not closed then runs
HUnregister(s) ==
    /\ hpc[s] = "l206"
    /\ mu = Nil
    /\ sessions' = sessions \ {s}
    /\ hpc' = [hpc EXCEPT ![s] = IF s \in closed THEN "closed" ELSE "run"]
    /\ UNCHANGED <<stateM, statePlayers, mu, heap, pm, closed, nkeys, bpc, btodo, bcur>>
    /\ UNCHANGED <<gameVars, raceVars>>

\* the model of a program with the contents of its board in place of the array
Load(mv) == [mv EXCEPT !.board = heap[mv.board]]

\* one tea.KeyMsg handled by the program of session s: the cells updateCell
\* writes are cells of the array m.board points to; esc points m.board to
\* a new array
KeyS(s, k) ==
    LET r == Update(Load(pm[s]), k)
        a == IF r.fresh THEN s ELSE pm[s].board IN
    /\ hpc[s] = "run"
    /\ nkeys < MaxKeys
    /\ WithinScore(r.m)
    /\ pm' = [pm EXCEPT ![s] = [r.m EXCEPT !.board = a]]
    /\ heap' = [heap EXCEPT ![a] = r.m.board]
    /\ hpc' = [hpc EXCEPT ![s] = IF r.cmd = "quit" THEN "quit" ELSE "run"]
    /\ nkeys' = nkeys + 1
    /\ UNCHANGED <<stateM, statePlayers, sessions, mu, closed, bpc, btodo, bcur>>
    /\ UNCHANGED <<gameVars, raceVars>>

NextSess ==
    \E s \in Sessions :
        \/ HRegister(s)
        \/ HCheck0(s)
        \/ HCheck1(s)
        \/ HBind(s, 0)
        \/ HBind(s, 1)
        \/ HClose(s)
        \/ HReturn(s)
        \/ HUnregister(s)
        \/ \E k \in GameKeys : KeyS(s, k)

SpecSess == Init /\ [][NextSess]_vars

(***************************************************************************)
(* SpecBcast: BroadcastMessage, lines 155-162, run by the goroutine of     *)
(* each registered channel (lines 140-145) and by Caller.                  *)
(***************************************************************************)
\* a call state.BroadcastMessage(redraw) from outside the goroutines
ExtCall ==
    /\ bpc[Caller] = "idle"
    /\ bpc' = [bpc EXCEPT ![Caller] = "lock"]
    /\ UNCHANGED <<m, cmd, stateM, statePlayers, sessions, mu, heap, pm, hpc,
                   closed, nkeys, btodo, bcur,
                   rpc, rcell, rvic, snap, nrounds>>

\* line 157: gs.mu.Lock(); line 159 starts the range over gs.sessions
BLock(p) ==
    /\ bpc[p] = "lock"
    /\ mu = Nil
    /\ mu' = p
    /\ btodo' = [btodo EXCEPT ![p] = sessions]
    /\ bpc' = [bpc EXCEPT ![p] = "range"]
    /\ UNCHANGED <<m, cmd, stateM, statePlayers, sessions, heap, pm, hpc,
                   closed, nkeys, bcur,
                   rpc, rcell, rvic, snap, nrounds>>

\* line 159: the loop takes the next channel, in no fixed order
BNext(p, c) ==
    /\ bpc[p] = "range"
    /\ c \in btodo[p]
    /\ bcur' = [bcur EXCEPT ![p] = c]
    /\ bpc' = [bpc EXCEPT ![p] = "send"]
    /\ UNCHANGED <<m, cmd, stateM, statePlayers, sessions, mu, heap, pm, hpc,
                   closed, nkeys, btodo,
                   rpc, rcell, rvic, snap, nrounds>>

\* line 160: ch <- msg on the unbuffered channel of line 204 completes only
\* together with the receive of line 142; the receiving goroutine goes on
\* to line 143, its own call of BroadcastMessage
Send(p) ==
    /\ bpc[p] = "send"
    /\ bpc[bcur[p]] = "recv"
    /\ bpc' = [bpc EXCEPT ![p] = "range", ![bcur[p]] = "lock"]

BSend(p) ==
    /\ Send(p)
    /\ btodo' = [btodo EXCEPT ![p] = btodo[p] \ {bcur[p]}]
    /\ bcur' = [bcur EXCEPT ![p] = Nil]
    /\ UNCHANGED <<m, cmd, stateM, statePlayers, sessions, mu, heap, pm, hpc,
                   closed, nkeys,
                   rpc, rcell, rvic, snap, nrounds>>

\* line 158, deferred: the loop is over, gs.mu.Unlock(); BroadcastMessage
\* returns, a goroutine of RegisterSession to its receive of line 142
BUnlock(p) ==
    /\ bpc[p] = "range"
    /\ btodo[p] = {}
    /\ mu' = Nil
    /\ bpc' = [bpc EXCEPT ![p] = IF p = Caller THEN "idle" ELSE "recv"]
    /\ UNCHANGED <<m, cmd, stateM, statePlayers, sessions, heap, pm, hpc,
                   closed, nkeys, btodo, bcur,
                   rpc, rcell, rvic, snap, nrounds>>

NextBcast ==
    \/ \E s \in Sessions :
          \/ HRegister(s)
          \/ HCheck0(s)
          \/ HCheck1(s)
          \/ HBind(s, 0)
          \/ HBind(s, 1)
          \/ HClose(s)
          \/ HReturn(s)
          \/ HUnregister(s)
    \/ ExtCall
    \/ \E p \in Procs :
          \/ BLock(p)
          \/ \E c \in Sessions : BNext(p, c)
          \/ BSend(p)
          \/ BUnlock(p)

\* every goroutine that can take a step is scheduled, and sync.Mutex hands
\* the lock to a goroutine that keeps waiting for it; nothing obliges
\* Caller to call
FairBcast ==
    /\ \A s \in Sessions :
          WF_vars(HRegister(s) \/ HCheck0(s) \/ HCheck1(s) \/ HBind(s, 0)
                    \/ HBind(s, 1) \/ HClose(s) \/ HReturn(s))
    /\ \A s \in Sessions : SF_vars(HUnregister(s))
    /\ \A p \in Procs : SF_vars(BLock(p))
    /\ \A p \in Procs :
          WF_vars((\E c \in Sessions : BNext(p, c)) \/ BSend(p) \/ BUnlock(p))

SpecBcast == Init /\ [][NextBcast]_vars /\ FairBcast

(***************************************************************************)
(* SpecRace: the programs of sessions 1 and 2 each handle a move key at    *)
(* the same time.  Each program runs in its own goroutine; m is a copy in  *)
(* each Update (value receiver), so currentPlayer, the scores and victory  *)
(* are private, while the cells are those of the one array both models     *)
(* point to.  One step is one condition or one assignment of updateCell.   *)
(***************************************************************************)
Cell(s) == heap[pm[s].board][rcell[s]]
At(s, c) == heap[pm[s].board][c]
Goto(s, l) == rpc' = [rpc EXCEPT ![s] = l]
\* the cells of set S of the array of session s are set to v
WriteCells(s, S, v) ==
    heap' = [heap EXCEPT ![pm[s].board] =
               [c \in Cells |-> IF c \in S THEN v ELSE heap[pm[s].board][c]]]
RowCells(x) == {<<x, 0>>, <<x, 1>>, <<x, 2>>}
ColCells(y) == {<<0, y>>, <<1, y>>, <<2, y>>}
RaceFrame == UNCHANGED <<m, cmd, stateM, statePlayers, sessions, mu, hpc, closed,
                         nkeys, bpc, btodo, bcur, rcell, snap, nrounds>>

\* both programs receive a move key and call updateCell(&m, x, y)
RStart(c1, c2) ==
    /\ \A s \in RaceSessions : hpc[s] = "run" /\ rpc[s] = "idle"
    /\ nrounds < MaxRounds
    /\ nrounds' = nrounds + 1
    /\ snap' = [board |-> heap[0], pm |-> <<pm[1], pm[2]>>, cell |-> <<c1, c2>>]
    /\ rcell' = [s \in RaceSessions |-> IF s = 1 THEN c1 ELSE c2]
    /\ rvic' = [s \in RaceSessions |-> FALSE]
    /\ rpc' = [s \in RaceSessions |-> "l247"]
    /\ UNCHANGED <<m, cmd, stateM, statePlayers, sessions, mu, heap, pm, hpc,
                   closed, nkeys, bpc, btodo, bcur>>

\* line 247: if *cell == 0
R247(s) ==
    /\ rpc[s] = "l247"
    /\ Goto(s, IF Cell(s) = 0 THEN "l248" ELSE "l250")
    /\ UNCHANGED <<heap, pm, rvic>> /\ RaceFrame

\* lines 248-249: *cell = m.currentPlayer; m.currentPlayer *= -1
R248(s) ==
    /\ rpc[s] = "l248"
    /\ WriteCells(s, {rcell[s]}, pm[s].currentPlayer)
    /\ pm' = [pm EXCEPT ![s].currentPlayer = pm[s].currentPlayer * (-1)]
    /\ Goto(s, "l255")
    /\ UNCHANGED rvic /\ RaceFrame

\* line 250: else if *cell == 1 || *cell == -1
R250(s) ==
    /\ rpc[s] = "l250"
    /\ Goto(s, IF Cell(s) = 1 \/ Cell(s) = -1 THEN "l251" ELSE "l255")
    /\ UNCHANGED <<heap, pm, rvic>> /\ RaceFrame

\* line 251: *cell *= -1
R251(s) ==
    /\ rpc[s] = "l251"
    /\ WriteCells(s, {rcell[s]}, Cell(s) * (-1))
    /\ Goto(s, "l255")
    /\ UNCHANGED <<pm, rvic>> /\ RaceFrame

\* line 255
R255(s) ==
    /\ rpc[s] = "l255"
    /\ Goto(s, IF /\ At(s, <<rcell[s][1], 0>>) = At(s, <<rcell[s][1], 1>>)
                  /\ At(s, <<rcell[s][1], 1>>) = At(s, <<rcell[s][1], 2>>)
               THEN "l256" ELSE "l262")
    /\ UNCHANGED <<heap, pm, rvic>> /\ RaceFrame

\* lines 256-259
R256(s) ==
    /\ rpc[s] = "l256"
    /\ WriteCells(s, RowCells(rcell[s][1]), 2)
    /\ rvic' = [rvic EXCEPT ![s] = TRUE]
    /\ Goto(s, "l262")
    /\ UNCHANGED pm /\ RaceFrame

\* line 262
R262(s) ==
    /\ rpc[s] = "l262"
    /\ Goto(s, IF /\ At(s, <<0, rcell[s][2]>>) = At(s, <<1, rcell[s][2]>>)
                  /\ At(s, <<1, rcell[s][2]>>) = At(s, <<2, rcell[s][2]>>)
               THEN "l263" ELSE "l269")
    /\ UNCHANGED <<heap, pm, rvic>> /\ RaceFrame

\* lines 263-266
R263(s) ==
    /\ rpc[s] = "l263"
    /\ WriteCells(s, ColCells(rcell[s][2]), 3)
    /\ rvic' = [rvic EXCEPT ![s] = TRUE]
    /\ Goto(s, "l269")
    /\ UNCHANGED pm /\ RaceFrame

\* lines 269-270
R269(s) ==
    /\ rpc[s] = "l269"
    /\ Goto(s, IF /\ At(s, <<0, 0>>) = At(s, <<1, 1>>)
                  /\ At(s, <<1, 1>>) = At(s, <<2, 2>>)
                  /\ (At(s, <<1, 1>>) = 1 \/ At(s, <<1, 1>>) = -1)
               THEN "l271" ELSE "l278")
    /\ UNCHANGED <<heap, pm, rvic>> /\ RaceFrame

\* lines 271-274
R271(s) ==
    /\ rpc[s] = "l271"
    /\ WriteCells(s, DiagCells, 4)
    /\ rvic' = [rvic EXCEPT ![s] = TRUE]
    /\ Goto(s, "l278")
    /\ UNCHANGED pm /\ RaceFrame

\* lines 278-279
R278(s) ==
    /\ rpc[s] = "l278"
    /\ Goto(s, IF /\ At(s, <<0, 2>>) = At(s, <<1, 1>>)
                  /\ At(s, <<1, 1>>) = At(s, <<2, 0>>)
                  /\ (At(s, <<1, 1>>) = 1 \/ At(s, <<1, 1>>) = -1)
               THEN "l280" ELSE "l286")
    /\ UNCHANGED <<heap, pm, rvic>> /\ RaceFrame

\* lines 280-283
R280(s) ==
    /\ rpc[s] = "l280"
    /\ WriteCells(s, AntiCells, 5)
    /\ rvic' = [rvic EXCEPT ![s] = TRUE]
    /\ Goto(s, "l286")
    /\ UNCHANGED pm /\ RaceFrame

\* lines 286-292, and Update returns the model to the program
R286(s) ==
    /\ rpc[s] = "l286"
    /\ pm' = [pm EXCEPT ![s] = AwardScore([m |-> pm[s], victory |-> rvic[s]])]
    /\ Goto(s, "ret")
    /\ rvic' = [rvic EXCEPT ![s] = FALSE]
    /\ rcell' = [rcell EXCEPT ![s] = <<0, 0>>]
    /\ UNCHANGED <<m, cmd, stateM, statePlayers, sessions, mu, heap, hpc, closed,
                   nkeys, bpc, btodo, bcur, snap, nrounds>>

\* both calls have returned: the programs wait for their next key
RDone ==
    /\ \A s \in RaceSessions : rpc[s] = "ret"
    /\ rpc' = [s \in RaceSessions |-> "idle"]
    /\ snap' = NoSnap
    /\ UNCHANGED <<m, cmd, stateM, statePlayers, sessions, mu, heap, pm, hpc,
                   closed, nkeys, bpc, btodo, bcur, rcell, rvic, nrounds>>

NextRace ==
    \/ \E c1 \in Cells : \E c2 \in Cells : RStart(c1, c2)
    \/ \E s \in RaceSessions :
          \/ R247(s) \/ R248(s) \/ R250(s) \/ R251(s)
          \/ R255(s) \/ R256(s) \/ R262(s) \/ R263(s)
          \/ R269(s) \/ R271(s) \/ R278(s) \/ R280(s)
          \/ R286(s)
    \/ RDone

\* the state once teaHandler has run for session 1 and then for session 2:
\* both hold a slot, both programs run on a copy of state.m
StateM1 == [newBubbleteaModel EXCEPT !.board = 0, !.ch[0] = 1, !.name[0] = User(1)]
StateM2 == [StateM1 EXCEPT !.ch[1] = 2, !.name[1] = User(2)]
InitRace ==
    /\ m = [newBubbleteaModel EXCEPT !.name[0] = User(1), !.ch[0] = 1]
    /\ cmd = "nil"
    /\ stateM = StateM2
    /\ statePlayers = [i \in Slots |-> i + 1]
    /\ sessions = {}
    /\ mu = Nil
    /\ heap = [a \in Arrays |-> EmptyBoard]
    /\ pm = [s \in Sessions |->
               IF s = 1 THEN StateM1
               ELSE IF s = 2 THEN StateM2
               ELSE [newBubbleteaModel EXCEPT !.board = 0]]
    /\ hpc = [s \in Sessions |-> IF s \in RaceSessions THEN "run" ELSE "idle"]
    /\ closed = {}
    /\ nkeys = 0
    /\ bpc = [p \in Procs |->
                IF p = Caller THEN "idle"
                ELSE IF p \in RaceSessions THEN "recv" ELSE "none"]
    /\ btodo = [p \in Procs |-> {}]
    /\ bcur = [p \in Procs |-> Nil]
    /\ rpc = [s \in RaceSessions |-> "idle"]
    /\ rcell = [s \in RaceSessions |-> <<0, 0>>]
    /\ rvic = [s \in RaceSessions |-> FALSE]
    /\ snap = NoSnap
    /\ nrounds = 0

SpecRace == InitRace /\ [][NextRace]_vars

(***************************************************************************)
(* Vocabulary of the claims.                                               *)
(***************************************************************************)
Lines ==
    {{<<x, 0>>, <<x, 1>>, <<x, 2>>} : x \in Idx}
        \cup {{<<0, y>>, <<1, y>>, <<2, y>>} : y \in Idx}
        \cup {DiagCells, AntiCells}

\* the three cells of line L hold the same player's mark
LineOfMarks(b, L) == \E v \in Marks : \A c \in L : b[c] = v
HasLine(b) == \E L \in Lines : LineOfMarks(b, L)
HasTag(b) == \E c \in Cells : b[c] \in Tags
AllMarked(b) == \A c \in Cells : b[c] \in Marks
\* board b with the mark of player p written to cell c
Placed(b, c, p) == [b EXCEPT ![c] = p]
\* the slot of the player who holds the turn: 1 is players[0], -1 is players[1]
TurnSlot(mm) == IF mm.currentPlayer = 1 THEN 0 ELSE 1
\* the code keeps no phase: the round is over when a line is tagged or the
\* board is full
RoundOver(mm) == HasTag(mm.board) \/ \A c \in Cells : mm.board[c] # Empty
\* the step is a move key handled in the playing view
MoveStep(k) == k \in MoveKeys /\ m.view = 1 /\ Key(k)

(***************************************************************************)
(* Claims checked under Spec.                                              *)
(***************************************************************************)
\* C1: in every reachable model, a move on an empty cell that completes no
\* line passes the turn to the other player and leaves both scores as they
\* were (so a sequence of such moves alternates the turn and never scores).
C1_TurnAlternates ==
    \A k \in MoveKeys :
        ( /\ m.view = 1
          /\ m.board[KeyCell(k)] = Empty
          /\ ~HasLine(Placed(m.board, KeyCell(k), m.currentPlayer)) )
        => LET n == Update(m, k).m IN
           /\ n.currentPlayer = m.currentPlayer * (-1)
           /\ n.currentPlayer \in Marks
           /\ n.score = m.score

\* two alternating moves have been made, no line, no score
C1_Witness ==
    /\ Cardinality({c \in Cells : m.board[c] = MarkA}) = 2
    /\ Cardinality({c \in Cells : m.board[c] = MarkB}) = 2
    /\ ~HasTag(m.board)
    /\ m.currentPlayer = 1
    /\ m.score = [i \in Slots |-> 0]

\* C2: in every reachable model, placing on an empty cell the third mark of
\* any of the 8 lines ends the round (the line is tagged) and adds exactly 1
\* to the score of the player who placed it, the turn holder before the
\* move; the other score is unchanged and the turn has passed on.
C2_WinScoresMover ==
    \A k \in MoveKeys :
        ( /\ m.view = 1
          /\ m.board[KeyCell(k)] = Empty
          /\ \E L \in Lines :
               /\ KeyCell(k) \in L
               /\ LineOfMarks(Placed(m.board, KeyCell(k), m.currentPlayer), L) )
        => LET n == Update(m, k).m IN
           /\ RoundOver(n)
           /\ HasTag(n.board)
           /\ n.score[TurnSlot(m)] = m.score[TurnSlot(m)] + 1
           /\ n.score[1 - TurnSlot(m)] = m.score[1 - TurnSlot(m)]
           /\ TurnSlot(n) # TurnSlot(m)

\* player B (mark -1) has completed the anti-diagonal and holds the only point
C2_Witness ==
    /\ \A c \in AntiCells : m.board[c] = TagAnti
    /\ m.score[1] = 1
    /\ m.score[0] = 0
    /\ m.currentPlayer = 1

\* C3: once a winning line is tagged, no key event raises a score again
\* until the board is reset (so a round is scored once).
C3_ScoredOncePerRound ==
    [][HasTag(m.board) => m'.score = m.score]_vars

\* C4: once a winning line is tagged, a move on any cell leaves all nine
\* cells unchanged.
C4_BoardFrozenAfterWin ==
    [][\A k \in MoveKeys :
         (MoveStep(k) /\ HasTag(m.board)) => m'.board = m.board]_vars

\* C5: a board of nine marks without a line is a draw: the round is over,
\* and no further move changes the board or a score.
C5_DrawIsFinal ==
    [][\A k \in MoveKeys :
         (MoveStep(k) /\ AllMarked(m.board) /\ ~HasLine(m.board))
         => (m'.board = m.board /\ m'.score = m.score)]_vars

\* C7: in every reachable model whose round is over, esc in the playing view
\* empties all nine cells and keeps both scores and the turn.
C7_ResetKeepsScoresAndTurn ==
    (m.view = 1 /\ RoundOver(m))
    => LET n == Update(m, "esc").m IN
       /\ n.board = EmptyBoard
       /\ n.score = m.score
       /\ n.currentPlayer = m.currentPlayer
       /\ n.view = 1

\* the board is empty again after a round that player A won
C7_Witness ==
    /\ m.board = EmptyBoard
    /\ m.score[0] = 1
    /\ m.score[1] = 0
    /\ m.currentPlayer = -1

\* the board once lines 246-252 have run for the cell of move key k
Marked(k) == MarkCell(m, KeyCell(k)[1], KeyCell(k)[2]).board
\* the lines through the cell of k that hold three marks of one player then
Completed(k) ==
    LET p == Marked(k) IN
    {L \in Lines : KeyCell(k) \in L /\ LineOfMarks(p, L)}

\* C13: in every reachable model, a move raises a score or writes a line
\* tag only if, with the cell marked, a line through that cell holds three
\* equal marks of a player (never on three empty or three tagged cells).
C13_WinOnlyOnMarks ==
    \A k \in MoveKeys :
        m.view = 1
        => LET n == Update(m, k).m IN
           (n.score # m.score \/ n.board # Marked(k)) => Completed(k) # {}

\* the first of the lines S in the order row, column, diagonal, anti-diagonal
FirstLine(S, c) ==
    IF RowCells(c[1]) \in S THEN RowCells(c[1])
    ELSE IF ColCells(c[2]) \in S THEN ColCells(c[2])
    ELSE IF DiagCells \in S THEN DiagCells
    ELSE AntiCells
TagOf(L, c) ==
    IF L = RowCells(c[1]) THEN TagRow
    ELSE IF L = ColCells(c[2]) THEN TagCol
    ELSE IF L = DiagCells THEN TagDiag
    ELSE TagAnti

\* C14: in every reachable model, a move that completes two or more lines
\* at once tags exactly the first of them in the order row, column,
\* diagonal, anti-diagonal; every cell outside that line keeps its value
\* (the other completed lines keep their marks but for the shared cell),
\* and the two scores together rise by exactly 1.
C14_FirstLineTagged ==
    \A k \in MoveKeys :
        (m.view = 1 /\ Cardinality(Completed(k)) >= 2)
        => LET n == Update(m, k).m
               F == FirstLine(Completed(k), KeyCell(k)) IN
           /\ \A d \in F : n.board[d] = TagOf(F, KeyCell(k))
           /\ \A d \in Cells \ F : n.board[d] = Marked(k)[d]
           /\ n.score[0] + n.score[1] = m.score[0] + m.score[1] + 1

\* player A's mark on (0,0) completed row 0 and column 0: the row is tagged,
\* the rest of the column keeps A's marks, one point
C14_Witness ==
    /\ \A d \in RowCells(0) : m.board[d] = TagRow
    /\ m.board[<<1, 0>>] = MarkA /\ m.board[<<2, 0>>] = MarkA
    /\ \A d \in {<<1, 1>>, <<1, 2>>, <<2, 1>>, <<2, 2>>} : m.board[d] = MarkB
    /\ m.score[0] = 1 /\ m.score[1] = 0
    /\ m.currentPlayer = -1

RowOrColEqual(b, c) ==
    \/ \A d \in RowCells(c[1]) : b[d] = b[c]
    \/ \A d \in ColCells(c[2]) : b[d] = b[c]

C19_ResetOnlyWhenRoundOver ==
    (m.view = 1 /\ ~RoundOver(m))
    => LET n == Update(m, "esc").m IN
       /\ n.board = m.board
       /\ n.currentPlayer = m.currentPlayer
       /\ n.score = m.score

\* C20: in every reachable model with view = 2, no key changes the view,
\* the board, the turn or the scores, and none returns the quit command.
C20_View2Absorbing ==
    m.view = 2
    => \A k \in Keys :
          LET r == Update(m, k) IN
          /\ r.m.view = 2
          /\ r.m.board = m.board
          /\ r.m.currentPlayer = m.currentPlayer
          /\ r.m.score = m.score
          /\ r.cmd # "quit"

\* view 2 was entered in the middle of a round
C20_Witness ==
    /\ m.view = 2
    /\ m.board[<<1, 1>>] = MarkA
    /\ m.board[<<0, 0>>] = MarkB
    /\ m.currentPlayer = 1

(***************************************************************************)
(* Claims checked under SpecName.                                          *)
(***************************************************************************)
\* C18: whenever the naming view is entered from the playing view (key 0),
\* the first name submitted goes to player A and the view stays the naming
\* view (for player B), the second goes to player B and the view becomes
\* the playing view; after the two submissions the board, the scores and
\* the turn are what they were when the naming view was entered.
C18_NamingOrder ==
    m.view = 1
    => LET entered == Update(m, "0").m IN
       /\ entered.view = 0
       /\ \A k1 \in Printable : \A k2 \in Printable :
             LET typedA == Update(entered, k1).m
                 namedA == Update(typedA, "enter").m
                 typedB == Update(namedA, k2).m
                 namedB == Update(typedB, "enter").m IN
             /\ namedA.name[0] = typedA.text
             /\ namedA.view = 0
             /\ namedB.name[1] = typedB.text
             /\ namedB.name[0] = typedA.text
             /\ namedB.view = 1
             /\ namedB.board = m.board
             /\ namedB.score = m.score
             /\ namedB.currentPlayer = m.currentPlayer

(***************************************************************************)
(* Claims checked under SpecSess.                                          *)
(***************************************************************************)
\* C6: a move key from the session bound to the slot that does not hold the
\* turn (in the model that session's program updates) leaves the board, the
\* turn and both scores as they were.
C6_OutOfTurnIgnored ==
    [][\A s \in Sessions : \A i \in Slots : \A k \in MoveKeys :
         ( /\ statePlayers[i] = s
           /\ pm[s].view = 1
           /\ TurnSlot(pm[s]) # i
           /\ KeyS(s, k) )
         => /\ heap' = heap
            /\ pm'[s].currentPlayer = pm[s].currentPlayer
            /\ pm'[s].score = pm[s].score]_vars

\* a step of the teaHandler of session s
HandlerStep(s) ==
    \/ HRegister(s) \/ HCheck0(s) \/ HCheck1(s) \/ HBind(s, 0) \/ HBind(s, 1)
    \/ HClose(s) \/ HReturn(s) \/ HUnregister(s)

\* C8: while two other sessions occupy both slots, no step of a further
\* session's teaHandler changes state.m (names, scores, channels, board,
\* turn), the slot bindings or a board, and that handler closes the session.
C8_ThirdSessionChangesNothing ==
    [][\A s \in Sessions :
         ( /\ statePlayers[0] \notin {Nil, s}
           /\ statePlayers[1] \notin {Nil, s}
           /\ HandlerStep(s) )
         => /\ stateM' = stateM
            /\ statePlayers' = statePlayers
            /\ heap' = heap
            /\ \A t \in Sessions \ {s} : pm'[t] = pm[t]
            /\ (hpc'[s] = "l242" => s \in closed')]_vars

\* the program of session s is running: the session is connected and its
\* key events reach Update
Connected(s) == hpc[s] = "run"

\* C11: the models of any two connected sessions show the same board
\* contents, the same turn and the same two scores, whatever keys either
\* session has sent.
C11_SharedMatchState ==
    \A s \in Sessions : \A t \in Sessions :
        (Connected(s) /\ Connected(t))
        => /\ Load(pm[s]).board = Load(pm[t]).board
           /\ pm[s].currentPlayer = pm[t].currentPlayer
           /\ pm[s].score = pm[t].score

\* C12: a connected session is in the registry state.sessions for as long
\* as it is connected (so that a broadcast after a move reaches it).
C12_ConnectedAreRegistered ==
    \A s \in Sessions : Connected(s) => s \in sessions

\* C16: a slot that is bound is never bound again, and the channel stored
\* for a slot is never replaced, in any interleaving of the teaHandlers
\* (the code never unbinds a slot, so its owner counts as connected).
C16_SlotNeverRebound ==
    [][\A i \in Slots :
         /\ (statePlayers[i] # Nil => statePlayers'[i] = statePlayers[i])
         /\ (stateM.ch[i] # Nil => stateM'.ch[i] = stateM.ch[i])]_vars

(***************************************************************************)
(* Claims checked under SpecBcast.                                         *)
(***************************************************************************)
InBroadcast(p) == bpc[p] \in {"lock", "range", "send"}

\* C9: every call of BroadcastMessage returns, whatever the recipients do.
C9_BroadcastReturns ==
    \A p \in Procs : InBroadcast(p) ~> ~InBroadcast(p)

\* teaHandler of session s is returning: the deferred UnregisterSession
\* (line 206) has been called and waits for the mutex
Unregistering(s) == hpc[s] = "l206"

\* C17: an UnregisterSession called while some BroadcastMessage is in flight
\* completes: the session leaves the registry (unregistration and broadcast
\* never block each other for ever).
C17_UnregisterCompletes ==
    \A s \in Sessions :
        (Unregistering(s) /\ \E p \in Procs : InBroadcast(p))
            ~> (s \notin sessions)

(***************************************************************************)
(* Claims checked under SpecRace.                                          *)
(***************************************************************************)
\* the board and the two models after updateCell is run to its end for the
\* session first with cell c1 and then for the session second with cell c2
Serial(first, c1, second, c2) ==
    LET r1 == updateCell([snap.pm[first] EXCEPT !.board = snap.board],
                         c1[1], c1[2])
        r2 == updateCell([snap.pm[second] EXCEPT !.board = r1.board],
                         c2[1], c2[2])
    IN [ board |-> r2.board,
         turn  |-> [s \in RaceSessions |->
                      IF s = first THEN r1.currentPlayer ELSE r2.currentPlayer],
         score |-> [s \in RaceSessions |->
                      IF s = first THEN r1.score ELSE r2.score] ]

Outcome ==
    [ board |-> heap[0],
      turn  |-> [s \in RaceSessions |-> pm[s].currentPlayer],
      score |-> [s \in RaceSessions |-> pm[s].score] ]

RaceDone == \A s \in RaceSessions : rpc[s] = "ret"

\* C10: when two concurrent moves have both finished, the board, the turns
\* and the scores are those of running the two moves one after the other,
\* in one of the two orders.
C10_MovesAtomic ==
    RaceDone =>
        \/ Outcome = Serial(1, snap.cell[1], 2, snap.cell[2])
        \/ Outcome = Serial(2, snap.cell[2], 1, snap.cell[1])

\* SpecSess reaches the state SpecRace starts in
RaceStartNotReached ==
    ~ ( /\ stateM = StateM2
        /\ statePlayers = [i \in Slots |-> i + 1]
        /\ sessions = {}
        /\ pm = [s \in Sessions |->
                   IF s = 1 THEN StateM1
                   ELSE IF s = 2 THEN StateM2
                   ELSE [newBubbleteaModel EXCEPT !.board = 0]]
        /\ hpc = [s \in Sessions |-> IF s \in RaceSessions THEN "run" ELSE "idle"]
        /\ bpc = [p \in Procs |->
                    IF p = Caller THEN "idle"
                    ELSE IF p \in RaceSessions THEN "recv" ELSE "none"]
        /\ heap = [a \in Arrays |-> EmptyBoard]
        /\ mu = Nil /\ closed = {} /\ nkeys = 0 )

====
